---- MODULE Spec2Model ----
(***************************************************************************)
(* Trajectory-Monitor physics engine: the bisection root finder brentq,    *)
(* the analytical power solver solvePower and the sampler                  *)
(* calculateTrajectory (src/components/MemoryDock.tsx:263-414, root finder *)
(* identical in src/services/physicsEngine.ts:9-38), and the legacy        *)
(* solvePower that nests two searches (src/services/physicsEngine.ts:      *)
(* 85-128).  Spec runs the solvers, SpecTraj runs calculateTrajectory.     *)
(*                                                                         *)
(* The user interface: SpecApp runs the parameter handlers of Controls and *)
(* the canvas knob together with App's physics effect (src/App.tsx:55-90), *)
(* SpecMemory the saved trajectories, their selection and the analysis     *)
(* items (src/App.tsx:104-207), SpecCanvas the pointer and touch handlers  *)
(* of GameCanvas (src/components/GameCanvas.tsx:346-591).                  *)
(*                                                                         *)
(* Numbers.  The code computes in IEEE doubles.  The model computes on a   *)
(* decimal fixed-point grid: a real v is the integer v * Scale, and every  *)
(* product, quotient and exponential is rounded toward zero onto the grid, *)
(* as a floating-point operation rounds onto the doubles.  The grid step   *)
(* is 2.5e-6, one quarter of brentq's tolerance 1e-5.  The sample time t   *)
(* of calculateTrajectory, which is accumulated by t += dt and compared    *)
(* with 20, is kept as a double, bit for bit.                              *)
(***************************************************************************)
EXTENDS Integers, Sequences, FiniteSets, TLC

VARIABLES
    pc,        \* "idle" | "loop" (inside brentq's for loop) | "done"
    caller,    \* who runs brentq: "none" | "direct" | "solvePower"
    f,         \* brentq parameter f, as a record (see Apply)
    min,       \* brentq parameter min
    max,       \* brentq parameter max
    maxIter,   \* brentq parameter maxIter
    a,         \* brentq local a
    b,         \* brentq local b
    fa,        \* brentq local fa
    fb,        \* brentq local fb
    i,         \* brentq loop counter i
    evals,     \* number of evaluations of f made by the current call
    root,      \* value returned by brentq (Null or Num)
    exit,      \* return statement brentq left through
    args,      \* arguments of the current solvePower call
    power,     \* solvePower local power (Null until computed)
    result,    \* value returned by solvePower (Null or Num)
    cause,     \* return statement solvePower left through
    outcomes,  \* failures returned by solvePower so far: <<cause, value>>
    tpc,       \* calculateTrajectory: "idle" | "loop" | "done"
    start,     \* the caller's start object {x, y}
    traj,      \* arguments of the current calculateTrajectory call
    time,      \* calculateTrajectory local t, an IEEE double
    points,    \* calculateTrajectory local points; after return, the
               \* array the caller holds
    stop,      \* how the while loop was left: "none" | "break" | "time"
    sampled,   \* value of t at the latest points.push
    passes,    \* passes through the while loop body made by this call
    seen,      \* one earlier call and the points it returned
    mode,      \* App state mode: "AUTO_AIM" | "MANUAL"
    uiAngle,   \* App state angle (whole degrees)
    uiWind,    \* App state wind
    manualPower,      \* App state manualPower, the power every render
                      \* passes to calculateTrajectory and to Controls
    target,           \* App state target {x, y}
    calculatedPower,  \* App state calculatedPower (Null or Num)
    error,            \* App state error (Null or a message)
    neededPower,      \* local neededPower of the latest run of the
                      \* physics effect (NotCalled if it returned before)
    powerBefore,      \* manualPower when the latest run of the effect began
    effectDue,        \* a dependency of the physics effect has changed
                      \* and the effect has not run yet
    presses,   \* presses of the +/- buttons so far
    savedTrajectories,  \* App state savedTrajectories, as the ids
    analysisItems,      \* App state analysisItems: [id, parentIds]
    selectedIds,        \* App state selectedIds
    now,       \* Date.now()
    shown,     \* the savedTrajectories and selectedIds of the render whose
               \* handlers and props the next event meets
    prevSelected,  \* selectedIds before the latest handler that sets it
    dragState,     \* GameCanvas state dragState: [mode, startScreen,
                   \* hasMoved, activeId]
    pinchActive,   \* pinchRef.current.active
    showCurrentTrajectory,  \* App state showCurrentTrajectory
    pointers,      \* for each pointer: is it down, where it was pressed,
                   \* was that on the background, and has it since been
                   \* further than 5 px away
    lastUp         \* the latest handlePointerUp: did its pointer come from
                   \* a background press and go that far, and did the
                   \* handler call onSetTarget

solverVars == <<pc, caller, f, min, max, maxIter, a, b, fa, fb, i, evals,
                root, exit, args, power, result, cause, outcomes>>

trajVars == <<tpc, start, traj, time, points, stop, sampled, passes, seen>>

appVars == <<mode, uiAngle, uiWind, manualPower, target, calculatedPower,
             error, neededPower, powerBefore, effectDue, presses>>

memVars == <<savedTrajectories, analysisItems, selectedIds, now, shown,
             prevSelected>>

canvasVars == <<dragState, pinchActive, showCurrentTrajectory, pointers,
                lastUp>>

vars == <<solverVars, trajVars, appVars, memVars, canvasVars>>

brentqVars == <<f, min, max, maxIter, a, b, fa, fb, i, evals, root, exit>>

-----------------------------------------------------------------------------
(* number | null *)

Null == [tag |-> "null"]

Num(v) == [tag |-> "number", val |-> v]

IsNum(r) == r.tag = "number"

-----------------------------------------------------------------------------
(* Fixed-point arithmetic.  TLC integers are 32 bits wide, so products and *)
(* quotients are formed limb by limb and never leave that range.           *)

Limb == 10 * 10 * 10

Scale == 400 * Limb

Abs(x) == IF x < 0 THEN 0 - x ELSE x

Sgn(x) == IF x > 0 THEN 1 ELSE IF x < 0 THEN 0 - 1 ELSE 0

\* floor(x * y / Scale) for naturals x, y
MulNat(x, y) ==
    LET xi == x \div Scale
        xf == x % Scale
        yi == y \div Scale
        yf == y % Scale
        a1 == xf \div Limb
        a0 == xf % Limb
        b1 == yf \div Limb
        b0 == yf % Limb
        q  == a1 * b1 * Limb + a1 * b0 + a0 * b1
    IN  xi * y + xf * yi + (q + (a0 * b0) \div Limb) \div (Scale \div Limb)

\* x * y, rounded toward zero
MulFx(x, y) == Sgn(x) * Sgn(y) * MulNat(Abs(x), Abs(y))

\* floor(x * Scale / y) for naturals x, y with 0 < y
DivNat(x, y) ==
    LET q0 == x \div y
        r0 == x % y
        q1 == (r0 * Limb) \div y
        r1 == (r0 * Limb) % y
        q2 == (r1 * (Scale \div Limb)) \div y
    IN  (q0 * Limb + q1) * (Scale \div Limb) + q2

\* x / y, rounded toward zero
DivFx(x, y) == Sgn(x) * Sgn(y) * DivNat(Abs(x), Abs(y))

\* x / 2, rounded toward zero (the midpoint and half-width divisions)
Half(x) == Sgn(x) * (Abs(x) \div 2)

\* 1/e on the grid
InvE == 147152

\* number of Taylor terms of e^-x used on [0, 1)
ExpTerms == 12

\* Horner evaluation of sum_{j >= 0} (-x)^j / j!, from term k on, 0 <= x < 1
RECURSIVE ExpFrac(_, _)
ExpFrac(x, k) ==
    IF k > ExpTerms THEN Scale
    ELSE Scale - MulFx(x, ExpFrac(x, k + 1)) \div k

RECURSIVE ExpPow(_, _)
ExpPow(n, acc) ==
    IF n = 0 \/ acc = 0 THEN acc ELSE ExpPow(n - 1, MulFx(acc, InvE))

\* Math.exp(-z) for z >= 0: e^-z = (1/e)^floor(z) * e^-frac(z)
ExpNeg(z) == ExpPow(z \div Scale, ExpFrac(z % Scale, 1))

-----------------------------------------------------------------------------
(* PHYSICS_CONSTANTS *)

G == 1579629 * (Scale \div 10000)

K == 1128 * (Scale \div Limb)

G_K == DivFx(G, K)

\* Math.cos((angle * Math.PI) / 180) for the launch angles of the model
Cos(angle) ==
    CASE angle = 0   -> 400000
      [] angle = 1   -> 399939
      [] angle = 2   -> 399756
      [] angle = 45  -> 282843
      [] angle = 63  -> 181596
      [] angle = 64  -> 175348
      [] angle = 65  -> 169047
      [] angle = 66  -> 162695
      [] angle = 67  -> 156292
      [] angle = 80  -> 69459
      [] angle = 90  -> 0
      [] angle = 135 -> 0 - 282843
      [] angle = 178 -> 0 - 399756
      [] angle = 179 -> 0 - 399939
      [] angle = 180 -> 0 - 400000

\* Math.tan((angle * Math.PI) / 180); tan(90 degrees) = 1.6e16 is outside
\* the grid and is never evaluated (solvePower returns before it)
Tan(angle) ==
    CASE angle = 0   -> 0
      [] angle = 1   -> 6982
      [] angle = 2   -> 13968
      [] angle = 45  -> 400000
      [] angle = 63  -> 785044
      [] angle = 64  -> 820122
      [] angle = 65  -> 857803
      [] angle = 66  -> 898415
      [] angle = 67  -> 942341
      [] angle = 80  -> 2268513
      [] angle = 135 -> 0 - 400000
      [] angle = 178 -> 0 - 13968
      [] angle = 179 -> 0 - 6982
      [] angle = 180 -> 0

\* Math.sin((angle * Math.PI) / 180)
Sin(angle) ==
    CASE angle = 0   -> 0
      [] angle = 1   -> 6981
      [] angle = 2   -> 13960
      [] angle = 45  -> 282843
      [] angle = 63  -> 356403
      [] angle = 64  -> 359518
      [] angle = 65  -> 362523
      [] angle = 66  -> 365418
      [] angle = 67  -> 368202
      [] angle = 80  -> 393923
      [] angle = 90  -> 400000
      [] angle = 135 -> 282843
      [] angle = 178 -> 13960
      [] angle = 179 -> 6981
      [] angle = 180 -> 0

-----------------------------------------------------------------------------
(* IEEE doubles of the sample time t of calculateTrajectory.  A double in
   [0, 64) that is a multiple of 2^-60 is kept as three limbs of 22 bits:
   its value is (h * 2^44 + m * 2^22 + l) * 2^-60.  Every double from 2^-8
   up has this form. *)

DblLimb == 2^22

Dbl(h, m, l) == [h |-> h, m |-> m, l |-> l]

DblZero == Dbl(0, 0, 0)

\* carries propagated upwards
DblNormal(h, m, l) ==
    LET m1 == m + l \div DblLimb
    IN  Dbl(h + m1 \div DblLimb, m1 % DblLimb, l % DblLimb)

RECURSIVE BitLen(_)
BitLen(k) == IF k = 0 THEN 0 ELSE 1 + BitLen(k \div 2)

\* low bits of x that do not fit a significand of 53 bits
ExcessBits(x) == IF BitLen(x.h) > 9 THEN BitLen(x.h) - 9 ELSE 0

\* x rounded to 53 significant bits, ties to even
DblRound(x) ==
    LET ulp == 2^ExcessBits(x)
        q   == x.l \div ulp
        r   == x.l % ulp
        up  == 2 * r > ulp \/ (2 * r = ulp /\ q % 2 = 1)
    IN  DblNormal(x.h, x.m, (q + (IF up THEN 1 ELSE 0)) * ulp)

\* x + y in double arithmetic
DblAdd(x, y) == DblRound(DblNormal(x.h + y.h, x.m + y.m, x.l + y.l))

\* x < y
DblLess(x, y) ==
    \/ x.h < y.h
    \/ x.h = y.h /\ x.m < y.m
    \/ x.h = y.h /\ x.m = y.m /\ x.l < y.l

\* x on the fixed-point grid, rounded to the nearest grid point
ToFixed(x) ==
    LET top == x.h * 2^9 + x.m \div 2^13
    IN  (top \div 2^18) * (Scale \div 2^7)
          + ((top % 2^18) * (Scale \div 2^7) + 2^17) \div 2^18

-----------------------------------------------------------------------------
(* calculateTrajectory: the closed-form position at time t *)

\* bug: the decay term is taken at its limit value
term2_NoDecay(t) == Scale

\* term2 = 1 - Math.exp(-K * t)
term2(t) == Scale - ExpNeg(MulFx(K, t))

\* bug: the wind drift term3_x is subtracted
PositionX_DriftReversed(startX, p, angle, wind, t) ==
    LET vx_init == MulFx(p, Cos(angle))
        term1_x == DivFx(vx_init - DivFx(wind, K), K)
        term3_x == MulFx(DivFx(wind, K), t)
    IN  startX + (MulFx(term1_x, term2(t)) - term3_x)

\* x = start.x + (term1_x * term2 + term3_x)
PositionX(startX, p, angle, wind, t) ==
    LET vx_init == MulFx(p, Cos(angle))
        term1_x == DivFx(vx_init - DivFx(wind, K), K)
        term3_x == MulFx(DivFx(wind, K), t)
    IN  startX + (MulFx(term1_x, term2(t)) + term3_x)

\* y = start.y + (term1_y * term2 - term3_y)
PositionY(startY, p, angle, t) ==
    LET vy_init == MulFx(p, Sin(angle))
        term1_y == DivFx(vy_init + G_K, K)
        term3_y == MulFx(G_K, t)
    IN  startY + (MulFx(term1_y, term2(t)) - term3_y)

-----------------------------------------------------------------------------
(* solvePower: constants and the closures of one call *)

\* Math.abs(dist) < 0.1
ShortRange == Scale \div 10

\* return 1.0
NominalPower == Scale

\* Math.abs(Math.cos(rad)) < 1e-9: 1e-9 lies below the grid step, so the
\* threshold is the smallest positive grid value
CosEps == 1

\* brentq(error_func, 0.01, 20.0)
TimeMin == Scale \div 100

TimeMax == 20 * Scale

\* bug: the short-range shortcut is never taken
IsShortRange_Never(dist) == FALSE

\* bug: only a target exactly at the launch point takes the shortcut
IsShortRange_ExactOnly(dist) == dist = 0

IsShortRange(dist) == Abs(dist) < ShortRange

IsVertical(angle) == Abs(Cos(angle)) < CosEps

v_wind(wind) == DivFx(wind, K)

\* C = v_wind * tanTheta + v_term
C(angle, wind) == MulFx(v_wind(wind), Tan(angle)) + G_K

\* error_func(t) = dist * tanTheta + C * (E / K - t) - height
error_func(dist, height, angle, wind, t) ==
    LET E == Scale - ExpNeg(MulFx(K, t))
    IN  MulFx(dist, Tan(angle)) + MulFx(C(angle, wind), DivFx(E, K) - t) - height

\* bug: the wind term of v_x0 is dropped
v_x0_NoWind(dist, wind, t) ==
    LET E_final == Scale - ExpNeg(MulFx(K, t))
    IN  DivFx(MulFx(K, dist - MulFx(DivFx(wind, K), t)), E_final)

\* v_x0 = K * (dist - v_wind * t) / E_final + v_wind
v_x0(dist, wind, t) ==
    LET E_final == Scale - ExpNeg(MulFx(K, t))
    IN  DivFx(MulFx(K, dist - MulFx(v_wind(wind), t)), E_final) + v_wind(wind)

\* power = v_x0 / Math.cos(rad)
RecoverPower(dist, angle, wind, t) == DivFx(v_x0(dist, wind, t), Cos(angle))

\* bug: the filter is missing
NegativePower_Missing(p) == FALSE

\* bug: the comparison is reversed, power > 0
NegativePower_Reversed(p) == p > 0

\* if (power < 0) return null
NegativePower(p) == p < 0

-----------------------------------------------------------------------------
(* brentq *)

\* default parameter tol = 1e-5
tol == Scale \div 100000

\* default parameter maxIter = 100
DefaultMaxIter == 100

\* the sign of the product x * y (the code only ever compares it with 0)
ProductSign(x, y) == Sgn(x) * Sgn(y)

\* bug: the bracket check never rejects
NotBracketed_Never(x, y) == FALSE

\* bug: the comparison is reversed, fa * fb < 0
NotBracketed_Reversed(x, y) == ProductSign(x, y) < 0

\* if (fa * fb > 0) return null
NotBracketed(x, y) == ProductSign(x, y) > 0

\* bug: off by one, i <= maxIter
LoopContinues_OffByOne(n, limit) == n <= limit

\* for (let i = 0; i < maxIter; i++)
LoopContinues(n, limit) == n < limit

\* bug: the bracket is cut at a third, not at the middle
Midpoint_Third(x, y) == x + (y - x) \div 3

\* const c = (a + b) / 2
Midpoint(x, y) == Half(x + y)

\* bug: only the residual test stops the search
Converged_ResidualOnly(fc, x, y) == Abs(fc) < tol

\* Math.abs(fc) < tol || (b - a) / 2 < tol
Converged(fc, x, y) == Abs(fc) < tol \/ Half(y - x) < tol

\* bug: the halves are swapped, fa * fc > 0
RootIsLeft_Swapped(x, fc) == ProductSign(x, fc) > 0

\* bug: the left half is kept whatever the sign of fc
RootIsLeft_Always(x, fc) == TRUE

\* if (fa * fc < 0) b = c else a = c
RootIsLeft(x, fc) == ProductSign(x, fc) < 0

(* The legacy solvePower: its closures, and brentq run on x_dist_func *)

\* -99999 and 99999 lie beyond the grid; they are kept as its two extreme
\* values, which no computed height error comes near
TooWeak == 0 - 5000 * Scale

TooStrong == 5000 * Scale

\* term1 * term2 + term3 - dist
x_dist_func(vx, wind, dist, t) ==
    LET term1 == DivFx(vx - DivFx(wind, K), K)
        term3 == MulFx(DivFx(wind, K), t)
    IN  MulFx(term1, term2(t)) + term3 - dist

\* brentq's for loop on x_dist_func, from pass n on
RECURSIVE ImpactLoop(_, _, _, _, _, _, _)
ImpactLoop(vx, wind, dist, lo, hi, flo, n) ==
    IF ~LoopContinues(n, DefaultMaxIter)
    THEN Num(Midpoint(lo, hi))
    ELSE LET c  == Midpoint(lo, hi)
             fc == x_dist_func(vx, wind, dist, c)
         IN  IF Converged(fc, lo, hi)
             THEN Num(c)
             ELSE IF RootIsLeft(flo, fc)
                  THEN ImpactLoop(vx, wind, dist, lo, c, flo, n + 1)
                  ELSE ImpactLoop(vx, wind, dist, c, hi, fc, n + 1)

\* t_impact = brentq(x_dist_func, 0.01, 20.0)
t_impact(vx, wind, dist) ==
    LET flo == x_dist_func(vx, wind, dist, TimeMin)
        fhi == x_dist_func(vx, wind, dist, TimeMax)
    IN  IF NotBracketed(flo, fhi)
        THEN Null
        ELSE ImpactLoop(vx, wind, dist, TimeMin, TimeMax, flo, 0)

\* simulated height minus target height for launch speed v
height_error_at_v(dist, height, angle, wind, v) ==
    LET vx == MulFx(v, Cos(angle))
        vy == MulFx(v, Sin(angle))
        ti == t_impact(vx, wind, dist)
    IN  IF ti = Null
        THEN IF x_dist_func(vx, wind, dist, TimeMax) < 0
             THEN TooWeak
             ELSE TooStrong
        ELSE MulFx(DivFx(vy + G_K, K), term2(ti.val)) - MulFx(G_K, ti.val)
                - height

\* bracket of launch speeds searched by the legacy solvePower
SpeedMin == Scale \div 2

SpeedMax == 200 * Scale

\* f(x), for the functions brentq is run on
Apply(fn, x) ==
    CASE fn.kind = "linear" ->
            \* fn.sgn * (x - fn.r) / fn.den
            fn.sgn * Sgn(x - fn.r) * (Abs(x - fn.r) \div fn.den)
      [] fn.kind = "error_func" ->
            error_func(fn.dist, fn.height, fn.angle, fn.wind, x)
      [] fn.kind = "height_error_at_v" ->
            height_error_at_v(fn.dist, fn.height, fn.angle, fn.wind, x)

-----------------------------------------------------------------------------
(* Inputs *)

\* a small iteration limit, passed as maxIter to make the loop run out
SmallIter == 3

MaxIters == {SmallIter, DefaultMaxIter}

Linear(r, den, sgn) == [kind |-> "linear", r |-> r, den |-> den, sgn |-> sgn]

\* f(x) = x - 3, x, x - 10, x + 2, (x - 3) / 1000, and their negations
TestFunctions ==
    {Linear(r * Scale, 1, s) : r \in {3, 0, 10, 0 - 2}, s \in {1, 0 - 1}}
        \cup {Linear(3 * Scale, 1000, s) : s \in {1, 0 - 1}}

\* the bracket [0, 10] of the test functions
TestMin == 0 * Scale

TestMax == 10 * Scale

Dists == {Scale \div 20, 0 - (Scale \div 20), 5 * Scale, 15 * Scale, 0 - 15 * Scale}

\* the height at which error_func(0.01) is exactly 0 for dist = 5,
\* angle = 45, wind = 0: a target the projectile passes at the first
\* instant of the search bracket
HeightAtTimeMin == error_func(5 * Scale, 0, 45, 0, TimeMin)

\* 10.7: with dist = 5, angle = 65 and WindShallow the error function
\* crosses zero at a slope of about 0.1
HeightShallow == 107 * (Scale \div 10)

Heights == {0 - 20 * Scale, 0, 5 * Scale, HeightAtTimeMin, HeightShallow}

Angles == {0, 45, 65, 90, 135, 180}

\* 39.49104: the wind that by itself carries a projectile launched with
\* speed 0 from the origin through (5, -20)
WindCarry == 39 * Scale + 196416

\* -73.5: at angle 65 the drift term v_wind * tan nearly cancels G / K
WindShallow == 0 - 147 * (Scale \div 2)

Winds == {0 - 20 * Scale, 0, 40 * Scale, WindCarry, WindShallow}

ErrorFunc(dist, height, angle, wind) ==
    [kind |-> "error_func", dist |-> dist, height |-> height,
     angle |-> angle, wind |-> wind]

\* the closure height_error_at_v of one legacy solvePower call
HeightErrorAtV(dist, height, angle, wind) ==
    [kind |-> "height_error_at_v", dist |-> dist, height |-> height,
     angle |-> angle, wind |-> wind]

\* targets the legacy solvePower is called with
LegacyDists == {15 * Scale, 0 - 15 * Scale}

LegacyHeights == {5 * Scale}

LegacyAngles == {65, 135}

LegacyWinds == {0, 0 - 20 * Scale}

NoArgs == [dist |-> 0, height |-> 0, angle |-> 0, wind |-> 0]

NoFunc == [kind |-> "none"]

\* doubles passed as dt: 0.05 (the default), 0.4 and 3
DefaultDt == Dbl(3276, 3355443, 838864)

Dts == {DefaultDt, Dbl(26214, 1677721, 2516608), Dbl(196608, 0, 0)}

\* TANK_POS
Origin == [x |-> 0, y |-> 0]

\* INITIAL_TARGET of App
INITIAL_TARGET == [x |-> 15 * Scale, y |-> 5 * Scale]

\* the physics effect returned before it called solvePower
NotCalled == [tag |-> "not called"]

\* the pointers of the device (a mouse and a pen, or two fingers)
Pointers == {1, 2}

\* screen positions of pointer events, in px along one line
Screen == {0, 4, 40}

\* the initial dragState, and the one handlePointerUp sets
IdleDrag ==
    [mode |-> "IDLE", startScreen |-> 0, hasMoved |-> FALSE, activeId |-> 0]

\* a pointer that is not down
NoPress == [down |-> FALSE, press |-> 0, background |-> FALSE, far |-> FALSE]

\* no handlePointerUp yet
NoUp == [flip |-> FALSE, far |-> FALSE, setTarget |-> FALSE]

\* a start high enough for the flight to last the full 20 seconds
Aloft == [x |-> 0, y |-> 3000 * Scale]

\* a start below the floor of the simulation
Sunk == [x |-> 0, y |-> 0 - 40 * Scale]

TrajCall(s, p, angle, wind, dt) ==
    [start |-> s, power |-> p, angle |-> angle, wind |-> wind, dt |-> dt]

\* the calls of calculateTrajectory that are made
TrajCalls ==
    {TrajCall(Origin, p * Scale, angle, w * Scale, DefaultDt) :
        p \in {10, 30}, angle \in {45, 80}, w \in {0 - 40, 0, 40}}
    \cup {TrajCall(Aloft, 0, 90, 0, dt) : dt \in Dts}
    \cup {TrajCall(Aloft, 100 * Scale, 0, w * Scale, DefaultDt) :
             w \in {0 - 150, 150}}
    \cup {TrajCall(Sunk, 30 * Scale, 45, 0, DefaultDt)}

NoStart == Origin

NoTraj == TrajCall(Origin, 0, 0, 0, DblZero)

NoCall == [call |-> NoTraj, points |-> << >>, later |-> 0]

-----------------------------------------------------------------------------
(* State machine *)

Init ==
    /\ pc = "idle"
    /\ caller = "none"
    /\ f = NoFunc
    /\ min = 0
    /\ max = 0
    /\ maxIter = 0
    /\ a = 0
    /\ b = 0
    /\ fa = 0
    /\ fb = 0
    /\ i = 0
    /\ evals = 0
    /\ root = Null
    /\ exit = "none"
    /\ args = NoArgs
    /\ power = Null
    /\ result = Null
    /\ cause = "none"
    /\ outcomes = {}
    /\ tpc = "idle"
    /\ start = NoStart
    /\ traj = NoTraj
    /\ time = DblZero
    /\ points = << >>
    /\ stop = "none"
    /\ sampled = DblZero
    /\ passes = 0
    /\ seen = NoCall
    /\ mode = "AUTO_AIM"
    /\ uiAngle = 65
    /\ uiWind = 0
    /\ manualPower = 50 * Scale
    /\ target = INITIAL_TARGET
    /\ calculatedPower = Null
    /\ error = Null
    /\ neededPower = NotCalled
    /\ powerBefore = 50 * Scale
    /\ effectDue = TRUE
    /\ presses = 0
    /\ savedTrajectories = << >>
    /\ analysisItems = << >>
    /\ selectedIds = << >>
    /\ now = 0
    /\ shown = [saved |-> << >>, selected |-> << >>]
    /\ prevSelected = << >>
    /\ dragState = IdleDrag
    /\ pinchActive = FALSE
    /\ showCurrentTrajectory = TRUE
    /\ pointers = [ptr \in Pointers |-> NoPress]
    /\ lastUp = NoUp

\* brentq has not been entered
BrentqIdle ==
    /\ f' = NoFunc
    /\ min' = 0
    /\ max' = 0
    /\ maxIter' = 0
    /\ a' = 0
    /\ b' = 0
    /\ fa' = 0
    /\ fb' = 0
    /\ i' = 0
    /\ evals' = 0
    /\ root' = Null
    /\ exit' = "none"

\* solvePower returns value v through the return statement c
SolveReturn(c, v, p) ==
    /\ power' = p
    /\ result' = v
    /\ cause' = c
    /\ outcomes' = IF v = Null THEN outcomes \cup {<<c, v>>} ELSE outcomes
    /\ pc' = "done"

\* bug: a vertical launch reports power 0
VerticalResult_Zero == Num(0)

\* value returned at the vertical-angle check
VerticalResult == Null

\* bug: the legacy sentinel 99999 is returned for 'no root'
NoRootResult_Sentinel == Num(99999)

\* bug: the legacy sentinel -99999 is returned for 'no root'
NoRootResult_TooWeak == Num(TooWeak)

\* value returned when brentq found no root
NoRootResult == Null

\* the rest of solvePower once brentq has returned ts (time_solution)
AfterBrentq(ts) ==
    IF ts = Null
    THEN SolveReturn("unreachable", NoRootResult, Null)
    ELSE LET p == RecoverPower(args.dist, args.angle, args.wind, ts.val)
         IN  IF NegativePower(p)
             THEN SolveReturn("negative", Null, Num(p))
             ELSE SolveReturn("ok", Num(p), Num(p))

\* the legacy solvePower returns final_v as brentq gave it
LegacyReturn(final_v) ==
    /\ result' = final_v
    /\ cause' = "legacy"
    /\ pc' = "done"
    /\ UNCHANGED <<power, outcomes>>

\* brentq returns value v through the return statement how
BrentqReturn(how, v) ==
    /\ root' = v
    /\ exit' = how
    /\ IF caller' = "solvePower"
       THEN AfterBrentq(v)
       ELSE IF caller' = "solvePowerLegacy"
       THEN LegacyReturn(v)
       ELSE /\ pc' = "done"
            /\ UNCHANGED <<power, result, cause, outcomes>>

\* brentq, from its entry to the first loop test
BrentqEnter(fn, lo, hi, limit) ==
    LET fa0 == Apply(fn, lo)
        fb0 == Apply(fn, hi)
    IN  /\ f' = fn
        /\ min' = lo
        /\ max' = hi
        /\ maxIter' = limit
        /\ a' = lo
        /\ b' = hi
        /\ fa' = fa0
        /\ fb' = fb0
        /\ i' = 0
        /\ evals' = 2
        /\ IF NotBracketed(fa0, fb0)
           THEN BrentqReturn("unbracketed", Null)
           ELSE /\ root' = Null
                /\ exit' = "none"
                /\ pc' = "loop"
                /\ UNCHANGED <<power, result, cause, outcomes>>

\* brentq(f, min, max, tol, maxIter) called on a test function
CallBrentq(fn, limit) ==
    /\ pc = "idle"
    /\ caller' = "direct"
    /\ args' = NoArgs
    /\ UNCHANGED <<trajVars, appVars, memVars, canvasVars>>
    /\ BrentqEnter(fn, TestMin, TestMax, limit)

\* solvePower(dist, height, angle, wind), up to brentq's first loop test
CallSolvePower(dist, height, angle, wind) ==
    /\ pc = "idle"
    /\ caller' = "solvePower"
    /\ UNCHANGED <<trajVars, appVars, memVars, canvasVars>>
    /\ args' = [dist |-> dist, height |-> height, angle |-> angle, wind |-> wind]
    /\ IF IsShortRange(dist)
       THEN BrentqIdle /\ SolveReturn("short", Num(NominalPower), Null)
       ELSE IF IsVertical(angle)
       THEN BrentqIdle /\ SolveReturn("vertical", VerticalResult, Null)
       ELSE BrentqEnter(ErrorFunc(dist, height, angle, wind),
                        TimeMin, TimeMax, DefaultMaxIter)

\* the legacy solvePower(dist, height, angle, wind), up to the first loop
\* test of the brentq it runs on height_error_at_v
CallSolvePowerLegacy(dist, height, angle, wind) ==
    /\ pc = "idle"
    /\ caller' = "solvePowerLegacy"
    /\ UNCHANGED <<trajVars, appVars, memVars, canvasVars>>
    /\ args' = [dist |-> dist, height |-> height, angle |-> angle, wind |-> wind]
    /\ BrentqEnter(HeightErrorAtV(dist, height, angle, wind),
                   SpeedMin, SpeedMax, DefaultMaxIter)

\* one pass through the body of brentq's for loop
Bisect ==
    /\ pc = "loop"
    /\ LoopContinues(i, maxIter)
    /\ UNCHANGED <<trajVars, appVars, memVars, canvasVars>>
    /\ LET c  == Midpoint(a, b)
           fc == Apply(f, c)
       IN  /\ evals' = evals + 1
           /\ UNCHANGED <<caller, args, f, min, max, maxIter>>
           /\ IF Converged(fc, a, b)
              THEN /\ BrentqReturn("converged", Num(c))
                   /\ UNCHANGED <<a, b, fa, fb, i>>
              ELSE /\ IF RootIsLeft(fa, fc)
                      THEN b' = c /\ fb' = fc /\ UNCHANGED <<a, fa>>
                      ELSE a' = c /\ fa' = fc /\ UNCHANGED <<b, fb>>
                   /\ i' = i + 1
                   /\ UNCHANGED <<pc, root, exit, power, result, cause, outcomes>>

\* the loop ran maxIter times: return (a + b) / 2
Exhaust ==
    /\ pc = "loop"
    /\ ~LoopContinues(i, maxIter)
    /\ UNCHANGED <<trajVars, appVars, memVars, canvasVars>>
    /\ UNCHANGED <<caller, args, f, min, max, maxIter, a, b, fa, fb, i, evals>>
    /\ BrentqReturn("exhausted", Num(Midpoint(a, b)))

\* the caller has taken the returned value; the next call starts afresh
Finish ==
    /\ pc = "done"
    /\ pc' = "idle"
    /\ caller' = "none"
    /\ args' = NoArgs
    /\ BrentqIdle
    /\ power' = Null
    /\ result' = Null
    /\ cause' = "none"
    /\ UNCHANGED outcomes
    /\ UNCHANGED <<trajVars, appVars, memVars, canvasVars>>

Next ==
    \/ \E fn \in TestFunctions, limit \in MaxIters : CallBrentq(fn, limit)
    \/ \E dist \in Dists, height \in Heights, angle \in Angles, wind \in Winds :
          CallSolvePower(dist, height, angle, wind)
    \/ \E dist \in LegacyDists, height \in LegacyHeights,
          angle \in LegacyAngles, wind \in LegacyWinds :
          CallSolvePowerLegacy(dist, height, angle, wind)
    \/ Bisect
    \/ Exhaust
    \/ Finish

Spec == Init /\ [][Next]_vars

-----------------------------------------------------------------------------
(* The solvers as functions of their arguments, as App calls them. brentq's
   loop is computed a number of passes at a time: a loop state is the
   bracket [lo, hi], flo = f(lo) and the pass number n before a pass, or the
   value the loop returned. *)

Running(lo, hi, flo, n) ==
    [done |-> FALSE, lo |-> lo, hi |-> hi, flo |-> flo, n |-> n, val |-> Null]

Returned(v) ==
    [done |-> TRUE, lo |-> 0, hi |-> 0, flo |-> 0, n |-> 0, val |-> v]

\* brentq(fn, lo, hi) up to its loop
BrentqStart(fn, lo, hi) ==
    IF NotBracketed(Apply(fn, lo), Apply(fn, hi))
    THEN Returned(Null)
    ELSE Running(lo, hi, Apply(fn, lo), 0)

\* one pass of the loop from the state st, after c and fc were computed
BrentqStepAt(st, c, fc) ==
    IF Converged(fc, st.lo, st.hi)
    THEN Returned(Num(c))
    ELSE IF RootIsLeft(st.flo, fc)
         THEN Running(st.lo, c, st.flo, st.n + 1)
         ELSE Running(c, st.hi, fc, st.n + 1)

\* the state one pass after the running state st
BrentqStep(fn, st) ==
    IF ~LoopContinues(st.n, DefaultMaxIter)
    THEN Returned(Num(Midpoint(st.lo, st.hi)))
    ELSE BrentqStepAt(st, Midpoint(st.lo, st.hi),
                      Apply(fn, Midpoint(st.lo, st.hi)))

\* the state k passes after st, or the return if it comes earlier
RECURSIVE BrentqAdvance(_, _, _)
BrentqAdvance(fn, st, k) ==
    IF k = 0 \/ st.done
    THEN st
    ELSE BrentqAdvance(fn, BrentqStep(fn, st), k - 1)

\* what brentq returns from the state st: the loop returns in pass
\* DefaultMaxIter at the latest
BrentqFinish(fn, st) == BrentqAdvance(fn, st, DefaultMaxIter + 1).val

\* solvePower after the power was recovered
CheckedPower(p) == IF NegativePower(p) THEN Null ELSE Num(p)

\* solvePower after brentq returned ts
PowerAtTime(dist, angle, wind, ts) ==
    IF ts = Null
    THEN NoRootResult
    ELSE CheckedPower(RecoverPower(dist, angle, wind, ts.val))

\* the analytical solvePower, ts being what its brentq call returns (the
\* two early returns come before the call)
SolvePowerWith(dist, angle, wind, ts) ==
    IF IsShortRange(dist)
    THEN Num(NominalPower)
    ELSE IF IsVertical(angle)
    THEN VerticalResult
    ELSE PowerAtTime(dist, angle, wind, ts)

-----------------------------------------------------------------------------
(* App: the shot parameters, their input handlers and the physics effect.
   React runs the effect after the render that follows a change of one of
   its dependencies [target, angle, wind, mode], and before the next input
   event is handled; every render passes manualPower to calculateTrajectory.
   The repository holds two engines under the name solvePower; a run of the
   effect calls the one the build binds. *)

\* the limit on power of the sliders, the buttons and the effect
PowerLimit == 100 * Scale

\* the limit on angle of the sliders, the buttons and the knob
AngleLimit == 180

\* Math.min(hi, Math.max(lo, v))
Clamp(v, lo, hi) == IF v < lo THEN lo ELSE IF v > hi THEN hi ELSE v

\* Number(v.toFixed(1)) for v >= 0: the nearest multiple of one tenth
ToFixed1(v) == ((v + Scale \div 20) \div (Scale \div 10)) * (Scale \div 10)

\* the raw knob angle after "if < 0 add 360; if > 180 set 180; round"
KnobAngle(raw) ==
    LET turned == IF raw < 0 THEN raw + 360 ELSE raw
    IN  IF turned > AngleLimit THEN AngleLimit ELSE turned

\* a JavaScript condition on number | null: null and 0 are falsy
Truthy(v) == v # Null /\ v.val # 0

\* a string of string | null
Str(s) == [tag |-> "string", val |-> s]

\* the messages of the effect
MsgLeft == Str("Target must be to the right of the player")

MsgUnreachable_None == Null

MsgUnreachable == Str("Target unreachable with current angle/wind")

MsgInsufficient ==
    Str("Force insufficient (Out of range or strong headwind)")

MsgExceeds == Str("Required power exceeds limit (100)")

\* the engines a build can bind solvePower to
Engines == {"analytical", "legacy"}

\* solvePower of the engine, ts being what its brentq call returns: the
\* legacy solvePower returns it as it is
SolvePowerGiven(engine, dist, angle, wind, ts) ==
    IF engine = "analytical" THEN SolvePowerWith(dist, angle, wind, ts) ELSE ts

\* the function and the bracket that the call c of solvePower gives to brentq
SearchOf(c) ==
    IF c[1] = "analytical"
    THEN [fn |-> ErrorFunc(c[2].x - Origin.x, c[2].y - Origin.y, c[3], c[4]),
          lo |-> TimeMin, hi |-> TimeMax]
    ELSE [fn |-> HeightErrorAtV(c[2].x - Origin.x, c[2].y - Origin.y,
                                c[3], c[4]),
          lo |-> SpeedMin, hi |-> SpeedMax]

\* atan2 of the knob drags, in whole degrees of (-180, 180]
KnobRaws == {0 - 90, 0, 65, 180}

\* positions of the angle slider (min 0, max 180, step 1)
AngleStops == {0, 65, 180}

\* positions of the wind slider
UiWinds == {0, 0 - 20 * Scale}

\* positions of the power slider (min 0, max 100, step 0.1)
PowerStops == {0, PowerLimit}

\* targets set on the canvas
UiTargets == {INITIAL_TARGET,
              [x |-> 36 * Scale, y |-> 18 * Scale],
              [x |-> 0 - 4 * Scale, y |-> 0]}

\* presses of the +/- buttons in one behaviour
MaxPresses == 1

\* the angles the handlers can leave in the angle state
UiAngles ==
    {Clamp(v + d, 0, AngleLimit) :
        v \in {65} \cup AngleStops \cup {KnobAngle(raw) : raw \in KnobRaws},
        d \in (0 - MaxPresses)..MaxPresses}

\* the calls of solvePower the effect can make
EffectCalls ==
    {c \in Engines \X UiTargets \X UiAngles \X UiWinds :
        c[2].x - Origin.x > 0}

\* passes of brentq's loop computed in one stage
StagePasses == 9

\* the calls that get as far as brentq, each with its loop state after
\* StagePasses, 2 * StagePasses and 3 * StagePasses passes
SearchStage1 ==
    {<<c, BrentqAdvance(SearchOf(c).fn,
                        BrentqStart(SearchOf(c).fn, SearchOf(c).lo,
                                    SearchOf(c).hi),
                        StagePasses)>> :
        c \in {e \in EffectCalls :
                 \/ e[1] = "legacy"
                 \/ ~(IsShortRange(e[2].x - Origin.x) \/ IsVertical(e[3]))}}

SearchStage2 ==
    {<<s[1], BrentqAdvance(SearchOf(s[1]).fn, s[2], StagePasses)>> :
        s \in SearchStage1}

SearchStage3 ==
    {<<s[1], BrentqAdvance(SearchOf(s[1]).fn, s[2], StagePasses)>> :
        s \in SearchStage2}

\* these calls with what brentq returns
SearchResults ==
    {<<s[1], BrentqFinish(SearchOf(s[1]).fn, s[2])>> : s \in SearchStage3}

\* what brentq returns in the call c
SearchResult(c) == (CHOOSE s \in SearchResults : s[1] = c)[2]

\* each call of the effect with its value, computed once
SolvedPowers ==
    {<<c, SolvePowerGiven(c[1], c[2].x - Origin.x, c[3], c[4],
                          SearchResult(c))>> : c \in EffectCalls}

\* the value of the call c
SolvedPower(c) == (CHOOSE call \in SolvedPowers : call[1] = c)[2]

\* the angle knob of GameCanvas is dragged to raw degrees
HandleKnobDrag(raw) ==
    /\ ~effectDue
    /\ uiAngle' = KnobAngle(raw)
    /\ effectDue' = (uiAngle' # uiAngle)
    /\ UNCHANGED <<mode, uiWind, manualPower, target, calculatedPower, error,
                   neededPower, powerBefore, presses>>
    /\ UNCHANGED <<solverVars, trajVars, memVars, canvasVars>>

\* the angle slider of Controls is moved to v
AngleSlider(v) ==
    /\ ~effectDue
    /\ uiAngle' = v
    /\ effectDue' = (uiAngle' # uiAngle)
    /\ UNCHANGED <<mode, uiWind, manualPower, target, calculatedPower, error,
                   neededPower, powerBefore, presses>>
    /\ UNCHANGED <<solverVars, trajVars, memVars, canvasVars>>

\* adjustAngle(delta) of Controls
AdjustAngle(delta) ==
    /\ ~effectDue
    /\ presses < MaxPresses
    /\ presses' = presses + 1
    /\ uiAngle' = Clamp(uiAngle + delta, 0, AngleLimit)
    /\ effectDue' = (uiAngle' # uiAngle)
    /\ UNCHANGED <<mode, uiWind, manualPower, target, calculatedPower, error,
                   neededPower, powerBefore>>
    /\ UNCHANGED <<solverVars, trajVars, memVars, canvasVars>>

\* the wind slider of Controls is moved to w
WindSlider(w) ==
    /\ ~effectDue
    /\ uiWind' = w
    /\ effectDue' = (uiWind' # uiWind)
    /\ UNCHANGED <<mode, uiAngle, manualPower, target, calculatedPower, error,
                   neededPower, powerBefore, presses>>
    /\ UNCHANGED <<solverVars, trajVars, memVars, canvasVars>>

\* the power slider of Controls is moved to v
PowerSlider(v) ==
    /\ ~effectDue
    /\ manualPower' = v
    /\ mode' = "MANUAL"
    /\ effectDue' = (mode' # mode)
    /\ UNCHANGED <<uiAngle, uiWind, target, calculatedPower, error,
                   neededPower, powerBefore, presses>>
    /\ UNCHANGED <<solverVars, trajVars, memVars, canvasVars>>

\* adjustPower(delta) of Controls
AdjustPower(delta) ==
    /\ ~effectDue
    /\ presses < MaxPresses
    /\ presses' = presses + 1
    /\ mode' = "MANUAL"
    /\ manualPower' = ToFixed1(Clamp(manualPower + delta * Scale, 0, PowerLimit))
    /\ effectDue' = (mode' # mode)
    /\ UNCHANGED <<uiAngle, uiWind, target, calculatedPower, error,
                   neededPower, powerBefore>>
    /\ UNCHANGED <<solverVars, trajVars, memVars, canvasVars>>

\* the power handleModeToggle hands to setPower, or the current one
TogglePower(newMode) ==
    IF newMode = "AUTO_AIM" /\ Truthy(calculatedPower)
    THEN calculatedPower.val
    ELSE manualPower

\* handleModeToggle(newMode) of Controls
HandleModeToggle(newMode) ==
    /\ ~effectDue
    /\ mode' = newMode
    /\ manualPower' = TogglePower(newMode)
    /\ effectDue' = (mode' # mode)
    /\ UNCHANGED <<uiAngle, uiWind, target, calculatedPower, error,
                   neededPower, powerBefore, presses>>
    /\ UNCHANGED <<solverVars, trajVars, memVars, canvasVars>>

\* onSetTarget(tg): setTarget with a new object
OnSetTarget(tg) ==
    /\ ~effectDue
    /\ target' = tg
    /\ effectDue' = TRUE
    /\ UNCHANGED <<mode, uiAngle, uiWind, manualPower, calculatedPower, error,
                   neededPower, powerBefore, presses>>
    /\ UNCHANGED <<solverVars, trajVars, memVars, canvasVars>>

\* the effect storing the solved power without the limit
SyncedPower_Unclamped(p) == IF mode = "AUTO_AIM" THEN p ELSE manualPower

\* the power the effect stores in manualPower after a solve that gave p
SyncedPower(p) ==
    IF mode = "AUTO_AIM"
    THEN IF p > PowerLimit THEN PowerLimit ELSE p
    ELSE manualPower

\* the error the effect leaves after a solve that gave p
SyncedError(p) ==
    IF mode = "AUTO_AIM" /\ p > PowerLimit THEN MsgExceeds ELSE Null

\* the physics effect of App
RunEffect(engine) ==
    /\ effectDue
    /\ effectDue' = FALSE
    /\ powerBefore' = manualPower
    /\ LET dist == target.x - Origin.x
       IN  IF dist <= 0
           THEN /\ error' = MsgLeft
                /\ calculatedPower' = Null
                /\ neededPower' = NotCalled
                /\ UNCHANGED manualPower
           ELSE /\ neededPower' = SolvedPower(<<engine, target, uiAngle,
                                                 uiWind>>)
                /\ IF neededPower' = Null
                   THEN /\ error' = MsgUnreachable
                        /\ calculatedPower' = Null
                        /\ UNCHANGED manualPower
                   ELSE IF neededPower' = Num(TooWeak)
                   THEN /\ error' = MsgInsufficient
                        /\ calculatedPower' = Null
                        /\ UNCHANGED manualPower
                   ELSE /\ error' = SyncedError(neededPower'.val)
                        /\ calculatedPower' = neededPower'
                        /\ manualPower' = SyncedPower(neededPower'.val)
    /\ UNCHANGED <<mode, uiAngle, uiWind, target, presses>>
    /\ UNCHANGED <<solverVars, trajVars, memVars, canvasVars>>

NextApp ==
    \/ \E raw \in KnobRaws : HandleKnobDrag(raw)
    \/ \E v \in AngleStops : AngleSlider(v)
    \/ \E delta \in {0 - 1, 1} : AdjustAngle(delta)
    \/ \E w \in UiWinds : WindSlider(w)
    \/ \E v \in PowerStops : PowerSlider(v)
    \/ \E delta \in {0 - 1, 1} : AdjustPower(delta)
    \/ \E newMode \in {"AUTO_AIM", "MANUAL"} : HandleModeToggle(newMode)
    \/ \E tg \in UiTargets : OnSetTarget(tg)
    \/ \E engine \in Engines : RunEffect(engine)

SpecApp == Init /\ [][NextApp]_vars

-----------------------------------------------------------------------------
(* State machine of calculateTrajectory *)

\* 20, the limit of the simulated time
TimeLimit == Dbl(5 * 2^18, 0, 0)

\* bug: the while loop has no time limit
InTime_NoLimit(x) == TRUE

\* t < 20
InTime(x) == DblLess(x, TimeLimit)

FloorY == 0 - 30 * Scale

RightX == 200 * Scale

LeftX == 0 - 50 * Scale

\* bug: only the floor ends the flight
OutOfBounds_FloorOnly(x, y) == y < FloorY

\* y < -30 || x > 200 || x < -50
OutOfBounds(x, y) == y < FloorY \/ x > RightX \/ x < LeftX

\* bug: points is hoisted out of the function and reused by every call
FreshPoints_Hoisted(prev) == prev

\* const points: Point[] = []
FreshPoints(prev) == << >>

\* bug: t is hoisted out of the function and never reset
FreshTime_Hoisted(prev) == prev

\* let t = 0
FreshTime(prev) == DblZero

\* calculateTrajectory(start, power, angle, wind, dt), up to the first test
\* of the while loop
CallCalculateTrajectory(c) ==
    /\ tpc # "loop"
    /\ tpc' = "loop"
    /\ start' = c.start
    /\ traj' = c
    /\ points' = FreshPoints(points)
    /\ time' = FreshTime(time)
    /\ stop' = "none"
    /\ sampled' = DblZero
    /\ passes' = 0
    /\ seen' = IF seen = NoCall \/ seen.later = 2
               THEN seen
               ELSE [seen EXCEPT !.later = seen.later + 1]
    /\ UNCHANGED <<solverVars, appVars, memVars, canvasVars>>

\* return points; the caller may keep the call and its result for later
TrajReturn(how, pts) ==
    /\ tpc' = "done"
    /\ stop' = how
    /\ \E keep \in BOOLEAN :
          seen' = IF seen = NoCall /\ keep
                  THEN [call |-> traj, points |-> pts, later |-> 0]
                  ELSE seen

\* one pass through the body of the while loop
Sample ==
    /\ tpc = "loop"
    /\ InTime(time)
    /\ LET x == PositionX(start.x, traj.power, traj.angle, traj.wind,
                          ToFixed(time))
           y == PositionY(start.y, traj.power, traj.angle, ToFixed(time))
           pushed == Append(points, [x |-> x, y |-> y])
       IN  /\ points' = pushed
           /\ sampled' = time
           /\ passes' = passes + 1
           /\ IF OutOfBounds(x, y)
              THEN TrajReturn("break", pushed) /\ UNCHANGED time
              ELSE /\ time' = DblAdd(time, traj.dt)
                   /\ UNCHANGED <<tpc, stop, seen>>
    /\ UNCHANGED <<start, traj>>
    /\ UNCHANGED <<solverVars, appVars, memVars, canvasVars>>

\* the while test fails: the simulated time is used up
TimeUp ==
    /\ tpc = "loop"
    /\ ~InTime(time)
    /\ TrajReturn("time", points)
    /\ UNCHANGED <<start, traj, time, points, sampled, passes>>
    /\ UNCHANGED <<solverVars, appVars, memVars, canvasVars>>

NextTraj ==
    \/ \E c \in TrajCalls : CallCalculateTrajectory(c)
    \/ Sample
    \/ TimeUp

SpecTraj == Init /\ [][NextTraj]_vars

-----------------------------------------------------------------------------
(* Properties *)

\* x and y are both positive or both negative
StrictlySameSign(x, y) == (x > 0 /\ y > 0) \/ (x < 0 /\ y < 0)

\* x and y are of strictly opposite signs
StrictlyOppositeSign(x, y) == (x > 0 /\ y < 0) \/ (x < 0 /\ y > 0)

\* brentq has been entered by the current call
InBrentq == f.kind # "none"

\* the current call of brentq has returned
BrentqDone == InBrentq /\ pc = "done"

\* some point within tol of x, inside [min, max], is a root of fn: fn takes
\* a value <= 0 and a value >= 0 on that window (fn is continuous)
HasRootNear(fn, x) ==
    LET Window == {u \in (x - tol)..(x + tol) : min <= u /\ u <= max}
    IN  \E u, v \in Window : Apply(fn, u) <= 0 /\ Apply(fn, v) >= 0

\* C1: whenever f(min) and f(max) are strictly of the same sign, brentq has
\* returned null straight after its two endpoint evaluations: no loop
\* iteration was run and no number was returned.
C1_UnbracketedReturnsNull ==
    (InBrentq /\ StrictlySameSign(Apply(f, min), Apply(f, max)))
        => /\ pc = "done"
           /\ root = Null
           /\ exit = "unbracketed"
           /\ i = 0
           /\ evals = 2

C1_Witness ==
    /\ BrentqDone
    /\ caller = "direct"
    /\ StrictlySameSign(Apply(f, min), Apply(f, max))
    /\ root = Null

\* a test function with one root r strictly inside the bracket and a strict
\* sign change at the endpoints, run with the default tol and maxIter
SingleRootCall ==
    /\ BrentqDone
    /\ caller = "direct"
    /\ maxIter = DefaultMaxIter
    /\ min < f.r /\ f.r < max
    /\ StrictlyOppositeSign(Apply(f, min), Apply(f, max))

\* C2 (as claimed): on a function with a single root r inside the bracket
\* and a strict sign change at the endpoints, brentq returns a number within
\* tol of r.
C2_RootWithinTol ==
    SingleRootCall => IsNum(root) /\ Abs(root.val - f.r) <= tol

\* C2 (amended): on such a function brentq returns a number t with
\* |f(t)| < tol or |t - r| <= tol; when f is x - r or r - x (slope 1, as in
\* the example x - 3 over [0, 10]) t is within tol of r.
C2_RootOrResidualWithinTol ==
    SingleRootCall =>
        /\ IsNum(root)
        /\ exit = "converged"
        /\ Abs(Apply(f, root.val)) < tol \/ Abs(root.val - f.r) <= tol
        /\ f.den = 1 => Abs(root.val - f.r) <= tol

C2_Witness ==
    /\ SingleRootCall
    /\ f = Linear(3 * Scale, 1, 1)
    /\ IsNum(root)
    /\ Abs(root.val - 3 * Scale) <= tol
    /\ i > 10

\* C3 (as claimed): for every f whose endpoint values are not strictly of
\* the same sign, an endpoint value of exactly zero included, the number
\* returned (default tol and maxIter) has a residual below tol or lies
\* within tol of a root of f in the bracket.
C3_ZeroEndpointBracketFindsRoot ==
    (BrentqDone /\ maxIter = DefaultMaxIter
        /\ ~StrictlySameSign(Apply(f, min), Apply(f, max)))
        => /\ IsNum(root)
           /\ Abs(Apply(f, root.val)) < tol \/ HasRootNear(f, root.val)

\* C4: brentq runs at most maxIter loop iterations and evaluates f at most
\* maxIter + 2 times, and when the loop runs out it returns the midpoint of
\* the final interval, a number and not null.
C4_BoundedIterations ==
    InBrentq =>
        /\ i <= maxIter
        /\ evals <= maxIter + 2
        /\ exit = "exhausted" =>
              /\ pc = "done"
              /\ i = maxIter
              /\ IsNum(root)
              /\ root.val = Half(a + b)
        /\ (pc = "done" /\ exit # "unbracketed") => IsNum(root)

C4_Witness ==
    /\ BrentqDone
    /\ exit = "exhausted"
    /\ i = maxIter
    /\ evals = maxIter + 2
    /\ IsNum(root)

\* the current call of solvePower has returned
SolveDone == caller = "solvePower" /\ pc = "done"

C6_VerticalAngleFails ==
    (caller = "solvePower" /\ Abs(args.dist) >= Scale \div 10 /\ Cos(args.angle) = 0)
        => /\ pc = "done"
           /\ result = Null
           /\ ~IsNum(result)
           /\ cause = "vertical"
           /\ ~InBrentq
           /\ evals = 0

C6_Witness ==
    /\ SolveDone
    /\ Abs(args.dist) >= Scale \div 10
    /\ args.angle = 90
    /\ args.height # 0
    /\ args.wind # 0
    /\ result = Null

\* the failure classes of the specification's Result type
FailureClass(c) ==
    CASE c = "vertical"    -> "DegenerateAngle"
      [] c = "unreachable" -> "Unreachable"
      [] c = "negative"    -> "Unreachable"

C8_PowerStrictlyPositive ==
    (SolveDone /\ IsNum(result)) => result.val > 0

\* C8 (amended): no number returned by solvePower is negative; it is
\* strictly positive except that 0 is returned when the recovered power is
\* exactly 0 (the wind alone carries the projectile through the target).
C8_PowerNotNegative ==
    (SolveDone /\ IsNum(result)) =>
        /\ result.val >= 0
        /\ result.val = 0 => (cause = "ok" /\ power = Num(0))

C8_Witness ==
    /\ SolveDone
    /\ cause = "ok"
    /\ result = Num(0)
    /\ args.wind = WindCarry

\* C9: when error(0.01) and error(20.0) are strictly of the same sign,
\* solvePower returns the unreachable failure (null) straight after the two
\* endpoint evaluations, and no number.
C9_NoSignChangeUnreachable ==
    (caller = "solvePower" /\ InBrentq
        /\ StrictlySameSign(
              error_func(args.dist, args.height, args.angle, args.wind, TimeMin),
              error_func(args.dist, args.height, args.angle, args.wind, TimeMax)))
        => /\ pc = "done"
           /\ root = Null
           /\ result = Null
           /\ ~IsNum(result)
           /\ cause = "unreachable"
           /\ evals = 2

C9_Witness ==
    /\ SolveDone
    /\ exit = "unbracketed"
    /\ cause = "unreachable"
    /\ result = Null

\* C10: solvePower returns no negative power: a negative recovered power
\* gives the unreachable failure (null), and a target behind the launch
\* direction (dist >= 0.1, wind = 0, 90 < angle <= 180) gives a failure for
\* every height.
C10_NoNegativePower ==
    SolveDone =>
        /\ IsNum(result) => result.val >= 0
        /\ (IsNum(power) /\ power.val < 0) => (result = Null /\ cause = "negative")
        /\ (args.dist >= Scale \div 10 /\ args.wind = 0
               /\ 90 < args.angle /\ args.angle <= 180)
              => (result = Null /\ cause \in {"unreachable", "negative"})

C10_Witness ==
    /\ SolveDone
    /\ args.dist >= Scale \div 10
    /\ args.wind = 0
    /\ args.angle = 135
    /\ IsNum(power)
    /\ power.val < 0
    /\ result = Null

\* the hit radius of the round-trip test, 0.05 distance units
HitRadius == Scale \div 20

\* launched from the origin with power p, the projectile is within
\* HitRadius of (dist, height) at time t
OnTarget(dist, height, angle, wind, p, t) ==
    LET dx == PositionX(0, p, angle, wind, t) - dist
        dy == PositionY(0, p, angle, t) - height
    IN  /\ Abs(dx) <= HitRadius
        /\ Abs(dy) <= HitRadius
        /\ dx * dx + dy * dy <= HitRadius * HitRadius

\* C11 (as claimed): solvePower returns a failure or a number, and a number
\* recovered from a solved time of flight is a solution of the target
\* equations: the closed-form trajectory with that power passes through
\* the target at the solved time.
C11_NumberIsSolution ==
    SolveDone =>
        /\ result = Null \/ IsNum(result)
        /\ cause = "ok" =>
              OnTarget(args.dist, args.height, args.angle, args.wind,
                       result.val, root.val)

C19_NoSentinel ==
    (caller \in {"solvePower", "solvePowerLegacy"}) =>
        /\ result \notin {Num(TooWeak), Num(TooStrong)}
        /\ InBrentq => {fa, fb} \cap {TooWeak, TooStrong} = {}

\* brentq was entered with a strict sign change over [min, max]
StrictStart == InBrentq /\ StrictlyOppositeSign(Apply(f, min), Apply(f, max))

\* at the loop test: the bracket lies inside [min, max], the cached values
\* are those of f at its ends, and it still holds the sign change
BracketInvariant ==
    (pc = "loop" /\ StrictStart) =>
        /\ min <= a
        /\ a < b
        /\ b <= max
        /\ fa = Apply(f, a)
        /\ fb = Apply(f, b)
        /\ StrictlyOppositeSign(fa, fb)

\* a pass that does not return halves the width b - a (to one grid step)
HalvesWidth ==
    (pc = "loop" /\ StrictStart /\ pc' = "loop" /\ i' = i + 1) =>
        2 * (b' - a') - (b - a) \in {0 - 1, 0, 1}

\* C20: if brentq starts with a strict sign change, then at the start of
\* every iteration min <= a < b <= max, fa = f(a), fb = f(b) and
\* fa * fb < 0, and each iteration that does not return halves b - a.
C20_BisectionInvariant == []BracketInvariant /\ [][HalvesWidth]_vars

C20_Witness ==
    /\ pc = "loop"
    /\ StrictStart
    /\ i = 3
    /\ min < a
    /\ b < max
    /\ 8 * (b - a) <= (max - min) + 8

-----------------------------------------------------------------------------
(* Properties of calculateTrajectory *)

TrajDone == tpc = "done"

LastPoint == points[Len(points)]

\* the point lies below the floor or outside the horizontal bounds
Outside(pt) == pt.y < 0 - 30 * Scale \/ pt.x > 200 * Scale \/ pt.x < 0 - 50 * Scale

\* ceil(20 / dt)
CeilSamples(dt) == (20 * Scale + ToFixed(dt) - 1) \div ToFixed(dt)

\* C13: calculateTrajectory is deterministic: a call with the same start,
\* power, angle, wind and dt as an earlier call returns the same points,
\* whatever calls were made in between.
C13_Deterministic ==
    (TrajDone /\ seen # NoCall /\ seen.call = traj) => points = seen.points

C13_Witness ==
    /\ TrajDone
    /\ seen # NoCall
    /\ seen.call = traj
    /\ seen.later = 2
    /\ Len(points) > 1

\* C14: calculateTrajectory returns at least one point and the first point
\* equals start, also when start itself is out of bounds.
C14_FirstPointIsStart ==
    TrajDone => Len(points) >= 1 /\ points[1] = traj.start

C14_Witness ==
    /\ TrajDone
    /\ traj.start = Sunk
    /\ Outside(traj.start)
    /\ points = <<Sunk>>

\* C15: the sample that ends the flight is included in the result and
\* nothing follows it: only the last point may lie below the floor or
\* outside the horizontal bounds, and it does when the loop was left by
\* the bounds test.
C15_OnlyLastOutside ==
    /\ \A j \in 1..(Len(points) - 1) : ~Outside(points[j])
    /\ (tpc = "loop" /\ Len(points) > 0) => ~Outside(LastPoint)
    /\ stop = "break" => TrajDone /\ Outside(LastPoint)
    /\ stop = "time" => TrajDone /\ ~Outside(LastPoint)

C15_Witness ==
    /\ TrajDone
    /\ stop = "break"
    /\ Len(points) > 1
    /\ LastPoint.x > 200 * Scale
    /\ LastPoint.y >= 0 - 30 * Scale

RangePowers == {10 * Scale, 30 * Scale, 50 * Scale, 100 * Scale}

\* the time in [lo, hi] at which a shot from the origin comes back down to
\* y = 0, to one grid step: y is positive at lo and negative at hi
RECURSIVE CrossingTime(_, _, _, _)
CrossingTime(p, angle, lo, hi) ==
    IF hi - lo <= 1
    THEN lo
    ELSE LET mid == (lo + hi) \div 2
         IN  IF PositionY(0, p, angle, mid) > 0
             THEN CrossingTime(p, angle, mid, hi)
             ELSE CrossingTime(p, angle, lo, mid)

\* horizontal distance from the origin at which the shot crosses y = 0
Range(p, angle, wind) ==
    PositionX(0, p, angle, wind, CrossingTime(p, angle, TimeMin, TimeMax))

\* a returned flight from the origin at an angle strictly between 0 and 90
RangeCase ==
    /\ TrajDone
    /\ traj.start = Origin
    /\ traj.angle \in {45, 80}
    /\ traj.power \in RangePowers

\* the returned points pass from above y = 0 to below it
CrossesZero == \E j \in 1..(Len(points) - 1) : points[j].y > 0 /\ points[j + 1].y <= 0

\* C18 (as claimed): from the origin, at a fixed angle in (0, 90) and any
\* fixed wind, a larger power gives a strictly larger horizontal distance
\* at the zero crossing.
C18_RangeMonotonic ==
    RangeCase =>
        \A p2 \in RangePowers :
            traj.power < p2 =>
                Range(traj.power, traj.angle, traj.wind)
                    < Range(p2, traj.angle, traj.wind)

\* C18 (amended): the same, for a wind that is not a headwind (wind >= 0).
C18_RangeMonotonicNoHeadwind ==
    (RangeCase /\ traj.wind >= 0) =>
        \A p2 \in RangePowers :
            traj.power < p2 =>
                Range(traj.power, traj.angle, traj.wind)
                    < Range(p2, traj.angle, traj.wind)

C18_Witness ==
    /\ RangeCase
    /\ traj.wind > 0
    /\ traj.angle = 80
    /\ traj.power = 10 * Scale
    /\ CrossesZero
    /\ Range(10 * Scale, 80, traj.wind) < Range(30 * Scale, 80, traj.wind)

-----------------------------------------------------------------------------
(* Properties of brentq's convergence test and of solvePower's step order *)

\* c, the midpoint of the bracket [lo, hi], meets one of the two
\* convergence criteria for the function of the current call
MeetsCriterion(lo, hi) ==
    \/ Abs(Apply(f, (lo + hi) \div 2)) < tol
    \/ (hi - lo) \div 2 < tol

\* a number returned before the iteration limit is the midpoint of the
\* bracket and meets a criterion
ReturnedMeetsCriterion ==
    (BrentqDone /\ exit = "converged") =>
        /\ i < maxIter
        /\ root = Num((a + b) \div 2)
        /\ MeetsCriterion(a, b)

\* a pass that goes on to the next iteration met neither criterion
NoEarlierReturn ==
    (pc = "loop" /\ pc' = "loop" /\ i' = i + 1) => ~MeetsCriterion(a, b)

\* C21: brentq returns the midpoint c of the bracket at the first iteration
\* in which |f(c)| < tol or (b - a) / 2 < tol and at no earlier iteration;
\* a value returned before the iteration limit meets a criterion.
C21_ReturnsAtFirstConvergence ==
    []ReturnedMeetsCriterion /\ [][NoEarlierReturn]_vars

C21_Witness ==
    /\ BrentqDone
    /\ exit = "converged"
    /\ i > 10
    /\ (b - a) \div 2 < tol
    /\ Abs(Apply(f, root.val)) >= tol

\* C22: solvePower applies its steps in a fixed order: short-range
\* shortcut, degenerate-angle check, root find of error(t) over
\* [0.01, 20.0], negative-power filter.  The root finder is reached only
\* when |dist| >= 0.1 and |cos(angle)| >= 1e-9, and every time of flight a
\* power is recovered from lies inside [0.01, 20.0].
C22_StepOrder ==
    caller = "solvePower" =>
        /\ Abs(args.dist) < Scale \div 10 => (cause = "short" /\ ~InBrentq)
        /\ (Abs(args.dist) >= Scale \div 10 /\ Cos(args.angle) = 0)
              => (cause = "vertical" /\ ~InBrentq)
        /\ InBrentq =>
              /\ Abs(args.dist) >= Scale \div 10
              /\ Cos(args.angle) # 0
              /\ f = ErrorFunc(args.dist, args.height, args.angle, args.wind)
              /\ min = Scale \div 100
              /\ max = 20 * Scale
        /\ cause = "unreachable" => (BrentqDone /\ root = Null /\ power = Null)
        /\ cause \in {"negative", "ok"} =>
              /\ BrentqDone
              /\ IsNum(root)
              /\ Scale \div 100 <= root.val
              /\ root.val <= 20 * Scale
              /\ power = Num(RecoverPower(args.dist, args.angle, args.wind,
                                          root.val))
        /\ pc = "done" =>
              cause \in {"short", "vertical", "unreachable", "negative", "ok"}

C22_Witness ==
    /\ SolveDone
    /\ cause = "negative"
    /\ IsNum(root)
    /\ Scale \div 100 <= root.val
    /\ root.val <= 20 * Scale
    /\ power.val < 0
    /\ result = Null

\* times at which the monotonicity of error(t) is probed: 0.01, then every
\* half second up to 20
ProbeTime(k) == IF k = 0 THEN TimeMin ELSE k * (Scale \div 2)

\* error(t) of the current solvePower call does not rise, or does not
\* fall, from each probe time to the next
ErrorMonotonic ==
    LET e(k) == error_func(args.dist, args.height, args.angle, args.wind,
                           ProbeTime(k))
    IN  \/ \A k \in 0..39 : e(k) >= e(k + 1)
        \/ \A k \in 0..39 : e(k) <= e(k + 1)

\* solvePower has run brentq on a bracket with a strict sign change
SolvedWithSignChange ==
    /\ SolveDone
    /\ InBrentq
    /\ StrictlyOppositeSign(
          error_func(args.dist, args.height, args.angle, args.wind, TimeMin),
          error_func(args.dist, args.height, args.angle, args.wind, TimeMax))

\* C23 (as claimed): error(t) is monotonic in t over [0.01, 20.0], and when
\* error(0.01) and error(20.0) are of strictly opposite signs the time of
\* flight solvePower uses is within the bisection tolerance of the root.
C23_TimeWithinTolOfRoot ==
    SolvedWithSignChange =>
        /\ ErrorMonotonic
        /\ IsNum(root)
        /\ HasRootNear(f, root.val)

\* C23 (amended): error(t) is monotonic, and the time of flight used has a
\* residual below tol or is within tol of the root; it is within tol of
\* the root when the wind does not act against G / K (wind * tan >= 0).
C23_TimeNearRootOrSmallResidual ==
    SolvedWithSignChange =>
        /\ ErrorMonotonic
        /\ IsNum(root)
        /\ Abs(Apply(f, root.val)) < tol \/ HasRootNear(f, root.val)
        /\ Sgn(args.wind) * Sgn(Tan(args.angle)) >= 0 => HasRootNear(f, root.val)

C23_Witness ==
    /\ SolvedWithSignChange
    /\ args.wind = WindShallow
    /\ args.angle = 65
    /\ args.height = HeightShallow
    /\ Abs(Apply(f, root.val)) < tol
    /\ ~HasRootNear(f, root.val)

-----------------------------------------------------------------------------
(* App: the saved trajectories, the analysis items and the selection.  A
   handler and its arguments belong to a render: the lists a component
   shows, the ids its buttons pass and the savedTrajectories that
   handleAnalyze reads are those of the render the event meets, which is the
   latest one once Render has followed the state change. *)

\* Date.now() values of one behaviour
MaxNow == 2

\* saved trajectories kept at a time
MaxSaved == 3

\* analysis items kept at a time
MaxItems == 1

\* the elements of a sequence
Elements(seq) == {seq[j] : j \in 1..Len(seq)}

\* array.includes(id)
Includes(seq, id) == id \in Elements(seq)

\* time passes
Tick ==
    /\ now < MaxNow
    /\ now' = now + 1
    /\ UNCHANGED <<savedTrajectories, analysisItems, selectedIds, shown,
                   prevSelected>>
    /\ UNCHANGED <<solverVars, trajVars, appVars, canvasVars>>

\* React renders App and its components with the current state
Render ==
    /\ shown # [saved |-> savedTrajectories, selected |-> selectedIds]
    /\ shown' = [saved |-> savedTrajectories, selected |-> selectedIds]
    /\ UNCHANGED <<savedTrajectories, analysisItems, selectedIds, now,
                   prevSelected>>
    /\ UNCHANGED <<solverVars, trajVars, appVars, canvasVars>>

\* saveCurrentTrajectory()
SaveCurrentTrajectory ==
    /\ Len(savedTrajectories) < MaxSaved
    /\ savedTrajectories' = <<now>> \o savedTrajectories
    /\ UNCHANGED <<analysisItems, selectedIds, now, shown, prevSelected>>
    /\ UNCHANGED <<solverVars, trajVars, appVars, canvasVars>>

\* deleteTrajectory(id)
DeleteTrajectory(id) ==
    /\ savedTrajectories' = SelectSeq(savedTrajectories, LAMBDA e : e # id)
    /\ analysisItems' =
           SelectSeq(analysisItems, LAMBDA e : ~Includes(e.parentIds, id))
    /\ selectedIds' = SelectSeq(selectedIds, LAMBDA e : e # id)
    /\ prevSelected' = selectedIds
    /\ UNCHANGED <<now, shown>>
    /\ UNCHANGED <<solverVars, trajVars, appVars, canvasVars>>

\* a third selection dropping the newer of the two
Toggled_DropsNewer(prev, id) ==
    IF Includes(prev, id)
    THEN SelectSeq(prev, LAMBDA e : e # id)
    ELSE IF Len(prev) >= 2
         THEN <<prev[1], id>>
         ELSE prev \o <<id>>

\* the updater of handleToggleSelection(id)
Toggled(prev, id) ==
    IF Includes(prev, id)
    THEN SelectSeq(prev, LAMBDA e : e # id)
    ELSE IF Len(prev) >= 2
         THEN <<prev[2], id>>
         ELSE prev \o <<id>>

\* handleToggleSelection(id)
HandleToggleSelection(id) ==
    /\ selectedIds' = Toggled(selectedIds, id)
    /\ prevSelected' = selectedIds
    /\ UNCHANGED <<savedTrajectories, analysisItems, now, shown>>
    /\ UNCHANGED <<solverVars, trajVars, appVars, canvasVars>>

\* the updater of handleSelectExclusive(id)
Exclusive(prev, id) ==
    IF Len(prev) = 1 /\ prev[1] = id THEN << >> ELSE <<id>>

\* handleSelectExclusive(id)
HandleSelectExclusive(id) ==
    /\ selectedIds' = Exclusive(selectedIds, id)
    /\ prevSelected' = selectedIds
    /\ UNCHANGED <<savedTrajectories, analysisItems, now, shown>>
    /\ UNCHANGED <<solverVars, trajVars, appVars, canvasVars>>

\* handleAnalyze(id1, id2) of a render whose savedTrajectories is closure
HandleAnalyze(id1, id2, closure) ==
    /\ Len(analysisItems) < MaxItems
    /\ IF ~Includes(closure, id1) \/ ~Includes(closure, id2)
       THEN UNCHANGED <<analysisItems, selectedIds, prevSelected>>
       ELSE /\ analysisItems' =
                  <<[id |-> now, parentIds |-> <<id1, id2>>]>>
                      \o analysisItems
            /\ selectedIds' = << >>
            /\ prevSelected' = selectedIds
    /\ UNCHANGED <<savedTrajectories, now, shown>>
    /\ UNCHANGED <<solverVars, trajVars, appVars, canvasVars>>

\* deleteAnalysisItem(id)
DeleteAnalysisItem(id) ==
    /\ analysisItems' = SelectSeq(analysisItems, LAMBDA e : e.id # id)
    /\ UNCHANGED <<savedTrajectories, selectedIds, now, shown, prevSelected>>
    /\ UNCHANGED <<solverVars, trajVars, appVars, canvasVars>>

NextMemory ==
    \/ Tick
    \/ Render
    \/ SaveCurrentTrajectory
    \/ \E id \in Elements(shown.saved) : DeleteTrajectory(id)
    \/ \E id \in Elements(shown.saved) : HandleToggleSelection(id)
    \/ \E id \in Elements(shown.saved) : HandleSelectExclusive(id)
    \/ /\ Len(shown.selected) = 2
       /\ HandleAnalyze(shown.selected[1], shown.selected[2], shown.saved)
    \/ \E item \in Elements(analysisItems) : DeleteAnalysisItem(item.id)

SpecMemory == Init /\ [][NextMemory]_vars

-----------------------------------------------------------------------------
(* GameCanvas: the drag state machine of the pointer handlers.  The handlers
   read the dragState of the latest render.  zoom, pan and labelOffsets,
   which the handlers also write, are not kept. *)

\* atan2 of the knob drags on the canvas, in whole degrees
CanvasRaws == {0 - 90}

\* targets set on the canvas
CanvasTargets == {[x |-> 36 * Scale, y |-> 18 * Scale]}

\* screen positions of the presses
PressPoints == {0, 40}

\* Math.hypot(dxScreen, dyScreen) > 5
MovedFar(from, to) == Abs(to - from) > 5

\* what a press can hit: the angle knob and the target only while the
\* current trajectory is shown, a label only if one is saved
Regions ==
    {"BACKGROUND"}
        \cup (IF showCurrentTrajectory THEN {"KNOB", "TARGET"} ELSE {})
        \cup (IF savedTrajectories # << >> THEN {"LABEL"} ELSE {})

\* the dragState handlePointerDown sets for a press at pos on region
Pressed(pos, region, id) ==
    [mode      |-> IF region = "BACKGROUND"
                   THEN "AWAIT_PAN_OR_CLICK"
                   ELSE region,
     startScreen |-> pos,
     hasMoved  |-> FALSE,
     activeId  |-> IF region = "LABEL" THEN id ELSE 0]

\* handlePointerDown: pointer ptr is pressed at pos on region
HandlePointerDown(ptr, pos, region, id) ==
    /\ ~pointers[ptr].down
    /\ pointers' = [pointers EXCEPT ![ptr] =
                       [down |-> TRUE, press |-> pos,
                        background |-> (region = "BACKGROUND"),
                        far |-> FALSE]]
    /\ dragState' = IF pinchActive
                    THEN dragState
                    ELSE Pressed(pos, region, id)
    /\ UNCHANGED <<pinchActive, showCurrentTrajectory, lastUp>>
    /\ UNCHANGED <<solverVars, trajVars, appVars, memVars>>

\* the pointer record after a move to pos
Moved(ptr, pos) ==
    [pointers EXCEPT ![ptr].far =
        @ \/ (pointers[ptr].down /\ MovedFar(pointers[ptr].press, pos))]

\* handlePointerMove: pointer ptr moves to pos
HandlePointerMove(ptr, pos, raw, tg) ==
    /\ pointers' = Moved(ptr, pos)
    /\ UNCHANGED <<pinchActive, showCurrentTrajectory, lastUp>>
    /\ UNCHANGED <<solverVars, trajVars, memVars>>
    /\ IF pinchActive
       THEN UNCHANGED <<dragState, appVars>>
       ELSE IF dragState.mode = "KNOB"
       THEN /\ uiAngle' = KnobAngle(raw)
            /\ effectDue' = (effectDue \/ uiAngle' # uiAngle)
            /\ UNCHANGED <<dragState, mode, uiWind, manualPower, target,
                           calculatedPower, error, neededPower, powerBefore,
                           presses>>
       ELSE IF dragState.mode = "LABEL"
       THEN /\ dragState' =
                  IF MovedFar(dragState.startScreen, pos)
                  THEN [dragState EXCEPT !.hasMoved = TRUE]
                  ELSE dragState
            /\ UNCHANGED appVars
       ELSE IF dragState.mode = "TARGET"
       THEN /\ target' = tg
            /\ effectDue' = TRUE
            /\ UNCHANGED <<dragState, mode, uiAngle, uiWind, manualPower,
                           calculatedPower, error, neededPower, powerBefore,
                           presses>>
       ELSE IF dragState.mode = "PAN"
               \/ (dragState.mode = "AWAIT_PAN_OR_CLICK"
                     /\ MovedFar(dragState.startScreen, pos))
       THEN /\ dragState' =
                  IF dragState.mode = "AWAIT_PAN_OR_CLICK"
                  THEN [dragState EXCEPT !.mode = "PAN", !.hasMoved = TRUE]
                  ELSE dragState
            /\ UNCHANGED appVars
       ELSE UNCHANGED <<dragState, appVars>>

\* handlePointerUp sets the target: a background click
SetsTarget ==
    /\ showCurrentTrajectory
    /\ dragState.mode = "AWAIT_PAN_OR_CLICK"
    /\ ~dragState.hasMoved

\* handlePointerUp toggles the selection: a label click
TogglesLabel ==
    /\ dragState.mode = "LABEL"
    /\ ~dragState.hasMoved
    /\ Includes(savedTrajectories, dragState.activeId)

\* handlePointerUp, on pointerup and on pointerleave of pointer ptr
HandlePointerUp(ptr, tg) ==
    /\ lastUp' = [flip |-> ~lastUp.flip,
                  far |-> (pointers[ptr].background /\ pointers[ptr].far),
                  setTarget |-> SetsTarget]
    /\ pointers' = [pointers EXCEPT ![ptr] = NoPress]
    /\ IF TogglesLabel
       THEN /\ selectedIds' = Toggled(selectedIds, dragState.activeId)
            /\ prevSelected' = selectedIds
       ELSE UNCHANGED <<selectedIds, prevSelected>>
    /\ IF SetsTarget
       THEN /\ target' = tg
            /\ effectDue' = TRUE
       ELSE UNCHANGED <<target, effectDue>>
    /\ dragState' = IdleDrag
    /\ UNCHANGED <<pinchActive, showCurrentTrajectory>>
    /\ UNCHANGED <<mode, uiAngle, uiWind, manualPower, calculatedPower, error,
                   neededPower, powerBefore, presses>>
    /\ UNCHANGED <<savedTrajectories, analysisItems, now, shown>>
    /\ UNCHANGED <<solverVars, trajVars>>

\* handleTouchStart with two touches: the pinch begins and cancels the drag
HandleTouchStart ==
    /\ \A ptr \in Pointers : pointers[ptr].down
    /\ pinchActive' = TRUE
    /\ dragState' = [dragState EXCEPT !.mode = "IDLE"]
    /\ UNCHANGED <<showCurrentTrajectory, pointers, lastUp>>
    /\ UNCHANGED <<solverVars, trajVars, appVars, memVars>>

\* handleTouchEnd, on touchend and touchcancel
HandleTouchEnd ==
    /\ pinchActive' = FALSE
    /\ UNCHANGED <<dragState, showCurrentTrajectory, pointers, lastUp>>
    /\ UNCHANGED <<solverVars, trajVars, appVars, memVars>>

\* setShowCurrentTrajectory(!showCurrentTrajectory)
ToggleShowCurrent ==
    /\ showCurrentTrajectory' = ~showCurrentTrajectory
    /\ UNCHANGED <<dragState, pinchActive, pointers, lastUp>>
    /\ UNCHANGED <<solverVars, trajVars, appVars, memVars>>

\* a trajectory is saved, so that the canvas shows a label
SaveForCanvas ==
    /\ savedTrajectories = << >>
    /\ savedTrajectories' = <<now>>
    /\ UNCHANGED <<analysisItems, selectedIds, now, shown, prevSelected>>
    /\ UNCHANGED <<solverVars, trajVars, appVars, canvasVars>>

NextCanvas ==
    \/ \E ptr \in Pointers, pos \in PressPoints :
          \E region \in Regions :
             HandlePointerDown(ptr, pos, region,
                               IF savedTrajectories = << >>
                               THEN 0
                               ELSE Head(savedTrajectories))
    \/ \E ptr \in Pointers, pos \in Screen :
          \E raw \in CanvasRaws, tg \in CanvasTargets :
             HandlePointerMove(ptr, pos, raw, tg)
    \/ \E ptr \in Pointers, tg \in CanvasTargets : HandlePointerUp(ptr, tg)
    \/ HandleTouchStart
    \/ HandleTouchEnd
    \/ ToggleShowCurrent
    \/ SaveForCanvas

SpecCanvas == Init /\ [][NextCanvas]_vars

-----------------------------------------------------------------------------
(* Properties of App *)

\* C24: after any sequence of knob drags, angle sliders and +/- buttons the
\* angle is within [0, 180], and after any sequence of power slider, +/-
\* button and auto-aim updates the power passed to calculateTrajectory,
\* manualPower, is within [0, 100]
C24_ParametersInDomain ==
    /\ 0 <= uiAngle /\ uiAngle <= 180
    /\ 0 <= manualPower /\ manualPower <= 100 * Scale

\* a step of the physics effect
EffectStep == effectDue /\ ~effectDue'

\* the effect has run and no dependency has changed since
EffectRan == ~effectDue

\* C27 as a step: when the solve of the effect gives a number p, in
\* AUTO_AIM manualPower becomes min(p, 100) and the error is the 'exceeds
\* limit' message exactly when p > 100 (and none otherwise); in MANUAL
\* manualPower is unchanged and the error is cleared
PowerSynced ==
    (EffectStep /\ neededPower'.tag = "number") =>
        LET p == neededPower'.val
        IN  IF mode = "AUTO_AIM"
            THEN /\ manualPower' = IF p < 100 * Scale THEN p ELSE 100 * Scale
                 /\ (error' = Str("Required power exceeds limit (100)"))
                        <=> (p > 100 * Scale)
                 /\ (error' = Null) <=> (p <= 100 * Scale)
            ELSE /\ manualPower' = manualPower
                 /\ error' = Null

\* C27: power sync of the physics effect on a successful solve
C27_PowerSync == [][PowerSynced]_vars

\* the effect ran in AUTO_AIM on a solve above the limit
C27_Witness ==
    /\ EffectRan
    /\ mode = "AUTO_AIM"
    /\ neededPower.tag = "number"
    /\ neededPower.val > 100 * Scale
    /\ manualPower = 100 * Scale
    /\ error = Str("Required power exceeds limit (100)")

\* after the effect has run, calculatedPower is null exactly when the
\* target is not to the right of the tank, and then solvePower was not
\* called, or solvePower returned null; and with it the error is set
FailureShown ==
    EffectRan =>
        /\ (target.x - Origin.x <= 0) <=> (neededPower = NotCalled)
        /\ (calculatedPower = Null)
              <=> (target.x - Origin.x <= 0 \/ neededPower = Null)
        /\ calculatedPower = Null => error # Null

\* a run of the effect whose solve failed leaves manualPower as it was
FailureKeepsPower ==
    (EffectStep /\ neededPower' = Null) => manualPower' = manualPower

\* C28: failure consistency of the physics effect
C28_FailureConsistency == []FailureShown /\ [][FailureKeepsPower]_vars

\* the effect ran on a target to the right and the solve failed
C28_Witness ==
    /\ EffectRan
    /\ target.x - Origin.x > 0
    /\ neededPower = Null
    /\ calculatedPower = Null
    /\ error = Str("Target unreachable with current angle/wind")

\* C29: no run of the effect gets -99999 from solvePower, of either
\* engine, and the 'Force insufficient' error is never shown
C29_NoInsufficientForce ==
    /\ \A c \in SolvedPowers : c[2] # Num(0 - 5000 * Scale)
    /\ neededPower # Num(0 - 5000 * Scale)
    /\ error # Str("Force insufficient (Out of range or strong headwind)")

\* the effect ran on a call that has no solution and reported it by null
C29_Witness ==
    /\ EffectRan
    /\ neededPower = Null
    /\ error = Str("Target unreachable with current angle/wind")
    /\ uiWind < 0

\* C25: after any sequence of handleToggleSelection, handleSelectExclusive,
\* handleAnalyze and deleteTrajectory, selectedIds holds at most 2 ids, no id
\* twice; and when a handler found two ids selected and left two other
\* than these (a third id was selected), the new list is <<the previous
\* second, the new id>>
C25_SelectionInvariant ==
    /\ Len(selectedIds) <= 2
    /\ Cardinality({selectedIds[j] : j \in 1..Len(selectedIds)})
          = Len(selectedIds)
    /\ (Len(prevSelected) = 2 /\ Len(selectedIds) = 2
          /\ selectedIds # prevSelected)
         => /\ selectedIds[1] = prevSelected[2]
            /\ selectedIds[2] # prevSelected[1]
            /\ selectedIds[2] # prevSelected[2]

\* a third id was selected while two were
C25_Witness ==
    /\ Len(prevSelected) = 2
    /\ Len(selectedIds) = 2
    /\ selectedIds # prevSelected
    /\ Cardinality({savedTrajectories[j] : j \in 1..Len(savedTrajectories)})
          = 3

\* C26: both parentIds of every analysis item, and every id in
\* selectedIds, are ids of trajectories in savedTrajectories, in every
\* reachable state, handleAnalyze of an earlier render included
C26_ReferentialIntegrity ==
    LET ids == {savedTrajectories[j] : j \in 1..Len(savedTrajectories)}
    IN  /\ \A k \in 1..Len(analysisItems) :
              /\ analysisItems[k].parentIds[1] \in ids
              /\ analysisItems[k].parentIds[2] \in ids
        /\ \A k \in 1..Len(selectedIds) : selectedIds[k] \in ids

\* the latest handlePointerUp set the target only for a pointer that had
\* not been further than 5 px from its press on the background
ClickOnlyIfStill == lastUp.setTarget => ~lastUp.far

\* a step of handlePointerUp leaves the drag mode IDLE
UpReturnsIdle == (lastUp'.flip # lastUp.flip) => dragState'.mode = "IDLE"

\* C30: every pointer-up or pointer-leave returns the drag mode to IDLE,
\* and the release of a pointer that was pressed on the background and
\* moved more than 5 px from the press point never sets the target
C30_DragStateMachine == []ClickOnlyIfStill /\ [][UpReturnsIdle]_vars

====
